---- MODULE Spec2Model ----
(***************************************************************************)
(* A model of the newsnerdrepos-bsky pipeline: the Collector               *)
(* (download.py), the Differ (new_repos_detector.py) and the Publisher     *)
(* (post_to_bluesky.py).  Python strings are sequences of Unicode code     *)
(* points, byte strings are sequences of numbers 0..255, files are records *)
(* held in a small filesystem.                                             *)
(***************************************************************************)
EXTENDS Integers, Sequences, FiniteSets, TLC

VARIABLES
    repoIn,     \* create_repo_post: the repo dictionary passed in
    deeplIn,    \* create_repo_post: what the translation service does
    record,     \* create_repo_post: the record returned
    postPc,     \* create_repo_post: "input" before the call, "done" after
    fs,         \* the snapshot files in THIS_DIR, by name
    cache,      \* the per-handle cache files data/<handle>.json
    env,        \* the environment: whether BLUESKY_USERNAME, BLUESKY_PASSWORD
                \* and DEEPL_API_KEY are set (and not empty)
    lastCmd,    \* the command that ran last
    coll,       \* the last direct get_repo_list call and what it did
    differ,     \* the last Differ run and what it did
    pub         \* the last Publisher run

postVars == <<repoIn, deeplIn, record, postPc>>

pipeVars == <<fs, cache, env, lastCmd, coll, differ, pub>>

vars == <<repoIn, deeplIn, record, postPc, fs, cache, env, lastCmd, coll,
          differ, pub>>

(***************************************************************************)
(* Strings                                                                 *)
(***************************************************************************)

\* n copies of the code point c
MkStr(n, c) == [i \in 1..n |-> c]

\* s[:n] for n >= 0
Take(s, n) == SubSeq(s, 1, IF n < Len(s) THEN n ELSE Len(s))

IsPrefixOf(p, s) == Len(p) <= Len(s) /\ SubSeq(s, 1, Len(p)) = p

\* needle occurs in hay at the 0-based index i
OccursAt(hay, needle, i) ==
    \A k \in 1..Len(needle) : hay[i + k] = needle[k]

\* bytes.find / str.find: the lowest 0-based index where needle starts, or -1
Find(hay, needle) ==
    LET last == Len(hay) - Len(needle)
    IN  IF \E i \in 0..last : OccursAt(hay, needle, i)
        THEN CHOOSE i \in 0..last :
                /\ OccursAt(hay, needle, i)
                /\ \A j \in 0..(i - 1) : ~OccursAt(hay, needle, j)
        ELSE -1

\* The UTF-8 encoding of one code point
Utf8Char(c) ==
    IF c < 128 THEN <<c>>
    ELSE IF c < 2048 THEN <<192 + (c \div 64), 128 + (c % 64)>>
    ELSE IF c < 65536 THEN
        <<224 + (c \div 4096), 128 + ((c \div 64) % 64), 128 + (c % 64)>>
    ELSE <<240 + (c \div 262144), 128 + ((c \div 4096) % 64),
           128 + ((c \div 64) % 64), 128 + (c % 64)>>

\* The encoding of s[lo..hi], the concatenation of its characters' encodings
\* (halved at each step to keep the evaluation shallow)
RECURSIVE Utf8Range(_, _, _)
Utf8Range(s, lo, hi) ==
    IF lo > hi THEN <<>>
    ELSE IF lo = hi THEN Utf8Char(s[lo])
    ELSE LET mid == (lo + hi) \div 2
         IN  Utf8Range(s, lo, mid) \o Utf8Range(s, mid + 1, hi)

\* str.encode('utf-8')
Utf8Encode(s) == Utf8Range(s, 1, Len(s))

\* The characters str.strip() removes
Whitespace == {9, 10, 11, 12, 13, 32}

\* not text.strip()
IsBlank(s) == \A i \in 1..Len(s) : s[i] \in Whitespace

(***************************************************************************)
(* post_to_bluesky.py: create_repo_post                                    *)
(***************************************************************************)

\* " har nettopp åpnet repoet "
HarNettopp == <<32, 104, 97, 114, 32, 110, 101, 116, 116, 111, 112, 112, 32,
                229, 112, 110, 101, 116, 32, 114, 101, 112, 111, 101, 116, 32>>
\* ": "
ColonSpace == <<58, 32>>
\* "https://github.com/"
GithubUrl == <<104, 116, 116, 112, 115, 58, 47, 47, 103, 105, 116, 104, 117,
               98, 46, 99, 111, 109, 47>>
\* "\n\n"
BlankLine == <<10, 10>>
\* "..."
Ellipsis == <<46, 46, 46>>

\* Bluesky's character limit
PostLimit == 300

\* A description value: None, NaN (a float, not a string) or a string
None == [kind |-> "none", s |-> <<>>]
NaN == [kind |-> "nan", s |-> <<>>]
StrVal(s) == [kind |-> "str", s |-> s]

\* pd.notna(description)
NotNa(d) == d.kind = "str"

\* pd.notna(description) and description
Truthy(d) == NotNa(d) /\ d.s # <<>>

\* translate_to_norwegian(text); deepl = [key, ok, text]: whether DEEPL_API_KEY
\* is set, whether the call returns, and the text it returns
translate_to_norwegian(text, deepl) ==
    IF text = <<>> \/ IsBlank(text) THEN text
    ELSE IF ~deepl.key THEN text
    ELSE IF deepl.ok THEN deepl.text
    ELSE text

RepoUrl(repo) == GithubUrl \o repo.full_name

\* f"{org} har nettopp åpnet repoet {full_name}: {repo_url}"
FixedPrefix(repo) ==
    repo.org \o HarNettopp \o repo.full_name \o ColonSpace \o RepoUrl(repo)

\* repo.get('description', '') followed by the translation
Description(repo, deepl) ==
    LET d == IF repo.has_description THEN repo.description ELSE StrVal(<<>>)
    IN  IF Truthy(d) THEN StrVal(translate_to_norwegian(d.s, deepl)) ELSE d

RemainingNoEllipsis(base_text) == PostLimit - Len(base_text)

\* remaining = 300 - len(base_text) - 3
Remaining(base_text) == PostLimit - Len(base_text) - Len(Ellipsis)

PostText(repo, deepl) ==
    LET d    == Description(repo, deepl)
        text == IF Truthy(d) THEN FixedPrefix(repo) \o BlankLine \o d.s
                ELSE FixedPrefix(repo)
    IN  IF Len(text) > PostLimit
        THEN LET base_text == FixedPrefix(repo) \o BlankLine
                 remaining == Remaining(base_text)
             IN  IF remaining > 0 /\ NotNa(d)
                 THEN base_text \o Take(d.s, remaining) \o Ellipsis
                 ELSE FixedPrefix(repo)
        ELSE text

UrlStartChars(text, repo_url) == Find(text, repo_url)

\* text_bytes.find(url_bytes)
UrlStart(text, repo_url) == Find(Utf8Encode(text), Utf8Encode(repo_url))

\* The record returned (createdAt, the wall-clock time, is left out)
create_repo_post(repo, deepl) ==
    LET text      == PostText(repo, deepl)
        url_start == UrlStart(text, RepoUrl(repo))
    IN  [text      |-> text,
         byteStart |-> url_start,
         byteEnd   |-> url_start + Len(Utf8Encode(RepoUrl(repo))),
         uri       |-> RepoUrl(repo)]

(***************************************************************************)
(* Files and tables                                                        *)
(***************************************************************************)

PreviousFile == "repos_previous.csv"
CurrentFile == "repos.csv"
NewReposFile == "new_repos.csv"
FileNames == {PreviousFile, CurrentFile, NewReposFile}

\* A file is missing, unreadable as a table, or holds rows
MissingFile == [st |-> "missing", rows |-> <<>>]
BadFile == [st |-> "bad", rows |-> <<>>]
OkFile(rows) == [st |-> "ok", rows |-> rows]

\* DataFrame.to_csv(index=False): a None or NaN description is written as an
\* empty field
CsvRow(r) ==
    [org |-> r.org, name |-> r.name, full_name |-> r.full_name,
     description |-> IF r.description.kind = "str" THEN r.description.s
                     ELSE <<>>]
to_csv(df) == OkFile([i \in 1..Len(df) |-> CsvRow(df[i])])

\* pd.read_csv: an empty field is read as NaN
DfRow(c) ==
    [org |-> c.org, name |-> c.name, full_name |-> c.full_name,
     description |-> IF c.description = <<>> THEN NaN
                     ELSE StrVal(c.description)]
read_csv(file) == [i \in 1..Len(file.rows) |-> DfRow(file.rows[i])]

\* json.dump / json.load of a list of repo dictionaries: None is null
JsonObj(d) ==
    [org |-> d.org, name |-> d.name, full_name |-> d.full_name,
     description |-> IF d.description.kind = "none"
                     THEN [null |-> TRUE, s |-> <<>>]
                     ELSE [null |-> FALSE, s |-> d.description.s]]
json_dump(d_list) == OkFile([i \in 1..Len(d_list) |-> JsonObj(d_list[i])])
PyDict(o) ==
    [org |-> o.org, name |-> o.name, full_name |-> o.full_name,
     description |-> IF o.description.null THEN None
                     ELSE StrVal(o.description.s)]
json_load(file) == [i \in 1..Len(file.rows) |-> PyDict(file.rows[i])]

(***************************************************************************)
(* download.py: the Collector                                              *)
(***************************************************************************)

Slash == <<47>>

\* x.split("/")[-1]
LastSegment(x) ==
    LET cuts == {i \in 1..Len(x) : x[i] = Slash[1]}
        from == IF cuts = {} THEN 1
                ELSE (CHOOSE i \in cuts : \A j \in cuts : j <= i) + 1
    IN  SubSeq(x, from, Len(x))

\* str.lower, on the ASCII letters
Lower(x) ==
    [i \in 1..Len(x) |-> IF x[i] >= 65 /\ x[i] <= 90 THEN x[i] + 32 ELSE x[i]]

\* str.strip
Strip(x) ==
    LET keep == {i \in 1..Len(x) : x[i] \notin Whitespace}
    IN  IF keep = {} THEN <<>>
        ELSE SubSeq(x, CHOOSE i \in keep : \A j \in keep : i <= j,
                       CHOOSE i \in keep : \A j \in keep : j <= i)

\* lambda x: x.split("/")[-1].lower().strip()
HandleOf(x) == Strip(Lower(LastSegment(x)))

\* drop_duplicates(subset=['handle'], keep='first')
DropDuplicates(hs) ==
    LET first == {i \in 1..Len(hs) : \A j \in 1..(i - 1) : hs[j] # hs[i]}
        F[n \in 0..Len(hs)] ==
            IF n = 0 THEN <<>>
            ELSE IF n \in first THEN Append(F[n - 1], hs[n]) ELSE F[n - 1]
    IN  F[Len(hs)]

\* Python's order on strings: by code point, a proper prefix first
LexLess(a, b) ==
    \E i \in 1..(Len(a) + 1) :
        /\ i <= Len(b)
        /\ \A j \in 1..(i - 1) : a[j] = b[j]
        /\ (i > Len(a) \/ a[i] < b[i])

KeyLess(r1, r2) ==
    \/ LexLess(r1.org, r2.org)
    \/ r1.org = r2.org /\ LexLess(r1.name, r2.name)

\* sorted with r put after the rows not greater than it
RECURSIVE InsertRow(_, _)
InsertRow(r, sorted) ==
    IF sorted = <<>> THEN <<r>>
    ELSE IF KeyLess(r, Head(sorted)) THEN <<r>> \o sorted
    ELSE <<Head(sorted)>> \o InsertRow(r, Tail(sorted))

\* DataFrame.sort_values(["org", "name"]), a stable sort
sort_values(df) ==
    LET F[n \in 0..Len(df)] ==
            IF n = 0 THEN <<>> ELSE InsertRow(df[n], F[n - 1])
    IN  F[Len(df)]

\* dict(org=org, name=r.name, full_name=r.full_name, description=...)
RepoDict(org, r) ==
    [org |-> org, name |-> r.name, full_name |-> r.full_name,
     description |-> r.description]

CacheHitAnyForce(c, org, force) == c[org].st # "missing"

\* data_path.exists() and not force
CacheHit(c, org, force) == c[org].st # "missing" /\ ~force

\* get_repo_list(org, force, wait) with the cache files c; api is what the
\* hosting API answers for org: kind "org" or "user" with its repos, "none"
\* (neither an organization nor a user), or "error" (another exception)
get_repo_list(c, org, force, api) ==
    IF CacheHit(c, org, force)
    THEN [raised |-> FALSE, returned |-> json_load(c[org]), cache |-> c,
          api_calls |-> 0, sleeps |-> 0, wrote |-> FALSE]
    ELSE IF api.kind = "error"
    THEN [raised |-> TRUE, returned |-> <<>>, cache |-> c,
          api_calls |-> 1, sleeps |-> 0, wrote |-> FALSE]
    ELSE IF api.kind = "none"
    THEN [raised |-> FALSE, returned |-> <<>>, cache |-> c,
          api_calls |-> 2, sleeps |-> 0, wrote |-> FALSE]
    ELSE LET d_list == [i \in 1..Len(api.repos) |-> RepoDict(org, api.repos[i])]
         IN  [raised |-> FALSE, returned |-> d_list,
              cache |-> [c EXCEPT ![org] = json_dump(d_list)],
              api_calls |-> IF api.kind = "org" THEN 2 ELSE 3,
              sleeps |-> 1, wrote |-> TRUE]

\* What is recorded of a get_repo_list call
CallRecord(c, org, force, res) ==
    [called |-> TRUE, org |-> org, force |-> force, before |-> c[org],
     after |-> res.cache[org], raised |-> res.raised,
     returned |-> res.returned, api_calls |-> res.api_calls,
     sleeps |-> res.sleeps, wrote |-> res.wrote]

NoCall ==
    [called |-> FALSE, org |-> <<>>, force |-> FALSE, before |-> MissingFile,
     after |-> MissingFile, raised |-> FALSE, returned |-> <<>>,
     api_calls |-> 0, sleeps |-> 0, wrote |-> FALSE]

\* for org in list(org_df.handle): repo_list += get_repo_list(org, ...)
\* stopping at the first call that raises
RECURSIVE CollectLoop(_, _, _, _, _, _)
CollectLoop(c, handles, force, api, repo_list, last) ==
    IF handles = <<>>
    THEN [raised |-> FALSE, repo_list |-> repo_list, cache |-> c, last |-> last]
    ELSE LET org == Head(handles)
             res == get_repo_list(c, org, force, api[org])
             rec == CallRecord(c, org, force, res)
         IN  IF res.raised
             THEN [raised |-> TRUE, repo_list |-> repo_list,
                   cache |-> res.cache, last |-> rec]
             ELSE CollectLoop(res.cache, Tail(handles), force, api,
                              repo_list \o res.returned, rec)

\* cli(force, wait) of download.py; fetch is what the request for orgs.csv
\* gives: ok, and the Github column
collector_cli(f, c, force, fetch, api) ==
    LET handles == [i \in 1..Len(fetch.github) |-> HandleOf(fetch.github[i])]
        loop    == CollectLoop(c, DropDuplicates(handles), force, api, <<>>,
                               NoCall)
    IN  IF ~fetch.ok
        THEN [exit |-> 1, outcome |-> "fetch_error", fs |-> f, cache |-> c,
              last |-> NoCall]
        ELSE IF \E i \in 1..Len(handles) : handles[i] = <<>>
        THEN [exit |-> 1, outcome |-> "empty_handle", fs |-> f, cache |-> c,
              last |-> NoCall]
        ELSE IF loop.raised
        THEN [exit |-> 1, outcome |-> "api_error", fs |-> f,
              cache |-> loop.cache, last |-> loop.last]
        ELSE IF loop.repo_list = <<>>
        THEN \* sort_values on a frame with no columns raises KeyError
             [exit |-> 1, outcome |-> "no_columns", fs |-> f,
              cache |-> loop.cache, last |-> loop.last]
        ELSE [exit |-> 0, outcome |-> "written",
              fs |-> [f EXCEPT ![CurrentFile] =
                                   to_csv(sort_values(loop.repo_list))],
              cache |-> loop.cache, last |-> loop.last]

(***************************************************************************)
(* create_repo_post on bounded inputs                                      *)
(***************************************************************************)

MaxOrgLen == 2
MaxFullNameLen == 127
MaxShortDesc == 6
MaxDescLen == 301

\* "a", "aa", ...
PostOrgs == {MkStr(n, 97) : n \in 1..MaxOrgLen}
\* "a/b", "a/bbb...": short ones, and those that bring the prefix near 300
PostFullNames ==
    {<<97, 47>> \o MkStr(n - 2, 98) :
        n \in {3, 60} \cup ((MaxFullNameLen - 5)..MaxFullNameLen)}
DescLens == (0..MaxShortDesc) \cup {MaxDescLen}
\* ASCII text, text of 3-byte characters, whitespace only
PostDescriptions ==
    {NaN} \cup {StrVal(MkStr(n, c)) : n \in DescLens, c \in {100, 8364, 32}}
PostRepos ==
    {[org |-> o, name |-> <<98>>, full_name |-> f, has_description |-> TRUE,
      description |-> d] : o \in PostOrgs, f \in PostFullNames,
                           d \in PostDescriptions}
    \cup {[org |-> o, name |-> <<98>>, full_name |-> f,
           has_description |-> FALSE, description |-> NaN] :
                o \in PostOrgs, f \in PostFullNames}
DeepLs ==
    {[key |-> FALSE, ok |-> FALSE, text |-> <<>>],
     [key |-> TRUE, ok |-> FALSE, text |-> <<>>]}
    \cup {[key |-> TRUE, ok |-> TRUE, text |-> t] :
            t \in {<<>>, <<110, 121>>, MkStr(MaxDescLen, 248)}}

NoRecord == [text |-> <<>>, byteStart |-> 0, byteEnd |-> 0, uri |-> <<>>]

PostInit ==
    /\ repoIn \in PostRepos
    /\ deeplIn \in DeepLs
    /\ record = NoRecord
    /\ postPc = "input"
    /\ fs = [n \in {"repos_previous.csv", "repos.csv", "new_repos.csv"} |->
                [st |-> "missing", rows |-> <<>>]]
    /\ cache = <<>>
    /\ env = <<>>
    /\ lastCmd = "none"
    /\ coll = <<>>
    /\ differ = <<>>
    /\ pub = <<>>

CreatePost ==
    /\ postPc = "input"
    /\ record' = create_repo_post(repoIn, deeplIn)
    /\ postPc' = "done"
    /\ UNCHANGED <<repoIn, deeplIn>>
    /\ UNCHANGED pipeVars

PostNext == CreatePost

SpecPost == PostInit /\ [][PostNext]_vars

(***************************************************************************)
(* new_repos_detector.py: the Differ                                       *)
(***************************************************************************)

\* current_df['full_name'].isin(previous_df['full_name']), for one key
IsIn(key, df) == \E j \in 1..Len(df) : df[j].full_name = key

NewReposKnown(current_df, previous_df) ==
    SelectSeq(current_df, LAMBDA r : IsIn(r.full_name, previous_df))

\* current_df[~current_df['full_name'].isin(previous_df['full_name'])]
NewRepos(current_df, previous_df) ==
    SelectSeq(current_df, LAMBDA r : ~IsIn(r.full_name, previous_df))

FirstRunNoSnapshots(f) ==
    f[PreviousFile].st = "missing" /\ f[CurrentFile].st = "missing"

\* not previous_path.exists()
FirstRun(f) == f[PreviousFile].st = "missing"

OutputPathPrevious == PreviousFile

\* THIS_DIR / "new_repos.csv"
OutputPath == NewReposFile

\* cli(previous, current) of new_repos_detector.py on the files f, with the
\* default paths
differ_cli(f) ==
    IF FirstRun(f)
    THEN [exit |-> 0, outcome |-> "first_run", new_repos |-> <<>>, fs |-> f,
          wrote |-> FALSE]
    ELSE IF f[PreviousFile].st # "ok" \/ f[CurrentFile].st # "ok"
    THEN [exit |-> 1, outcome |-> "read_error", new_repos |-> <<>>, fs |-> f,
          wrote |-> FALSE]
    ELSE LET previous_df == read_csv(f[PreviousFile])
             current_df  == read_csv(f[CurrentFile])
             new_repos   == NewRepos(current_df, previous_df)
         IN  IF Len(new_repos) = 0
             THEN [exit |-> 0, outcome |-> "none", new_repos |-> new_repos,
                   fs |-> f, wrote |-> FALSE]
             ELSE [exit |-> 1, outcome |-> "found", new_repos |-> new_repos,
                   fs |-> [f EXCEPT ![OutputPath] = to_csv(new_repos)],
                   wrote |-> TRUE]

NoDifferRun ==
    [ran |-> FALSE, consecutive |-> FALSE, exit |-> 0, outcome |-> "",
     new_repos |-> <<>>, wrote |-> FALSE]

(***************************************************************************)
(* post_to_bluesky.py: the Publisher                                       *)
(***************************************************************************)

\* The account identifier a login or a handle resolution gives
Did == <<100, 105, 100>>

\* authenticate_bluesky(username, password); login tells whether
\* client.login raises, whether its response carries a did, and what
\* resolve_handle does otherwise ("did", "no_did" or "raises")
authenticate_bluesky(login) ==
    IF login.raises THEN [ok |-> FALSE, did |-> <<>>]
    ELSE IF login.has_did THEN [ok |-> TRUE, did |-> Did]
    ELSE IF login.resolve = "did" THEN [ok |-> TRUE, did |-> Did]
    ELSE [ok |-> FALSE, did |-> <<>>]

post_to_bluesky_any_response(client, response) ==
    IF client.did = <<>> THEN [ok |-> FALSE, submitted |-> FALSE]
    ELSE [ok |-> response # "raises", submitted |-> TRUE]

\* post_to_bluesky(client, record); response is what create_record does:
\* "uri" (a response with a uri), "no_uri" or "raises"
post_to_bluesky(client, response) ==
    IF client.did = <<>> THEN [ok |-> FALSE, submitted |-> FALSE]
    ELSE [ok |-> response = "uri", submitted |-> TRUE]

\* repo.to_dict()
RowDict(r) ==
    [org |-> r.org, name |-> r.name, full_name |-> r.full_name,
     has_description |-> TRUE, description |-> r.description]

\* The posting loop, for _, repo in new_repos_df.iterrows(): what
\* post_to_bluesky returns for each row
PostResults(df, client, net) ==
    [i \in 1..Len(df) |-> post_to_bluesky(client, net.post[i]).ok]

\* success_count after the loop
SuccessCount(df, client, net) ==
    Cardinality({i \in 1..Len(df) : post_to_bluesky(client, net.post[i]).ok})

\* What translate_to_norwegian meets: os.getenv("DEEPL_API_KEY") and what the
\* translation call does
DeepL(e, call) == [key |-> e.deepl_key, ok |-> call.ok, text |-> call.text]

\* The records the loop hands to create_record, in order, each with the
\* response it got
Created(df, client, e, net) ==
    SelectSeq([i \in 1..Len(df) |->
                  [record    |-> create_repo_post(RowDict(df[i]),
                                                DeepL(e, net.deepl[i])),
                   response  |-> net.post[i],
                   submitted |->
                       post_to_bluesky(client, net.post[i]).submitted]],
              LAMBDA o : o.submitted)

NoPublisherRun ==
    [ran |-> FALSE, dry_run |-> FALSE, exit |-> 0, outcome |-> "",
     login_calls |-> 0, authenticated |-> FALSE, created |-> <<>>,
     printed |-> <<>>, success_count |-> 0, results |-> <<>>]

\* What a run that ends before the loops leaves
EarlyExit(dry_run, code, outcome) ==
    [ran |-> TRUE, dry_run |-> dry_run, exit |-> code, outcome |-> outcome,
     login_calls |-> 0, authenticated |-> FALSE, created |-> <<>>,
     printed |-> <<>>, success_count |-> 0, results |-> <<>>]

\* not username or not password, negated
HasCredentials(e) == e.username /\ e.password

\* cli(new_repos_file, dry_run) of post_to_bluesky.py on the files f, with the
\* default path; e is the environment, net what the services answer: to
\* the login, to each row's create_record and to each row's translation.
\* The result records what the run did.
publisher_cli(f, dry_run, e, net) ==
    LET new_repos_df == read_csv(f[NewReposFile])
        client == authenticate_bluesky(net.login)
    IN  IF f[NewReposFile].st = "missing"
        THEN EarlyExit(dry_run, 0, "no_file")
        ELSE IF f[NewReposFile].st # "ok"
        THEN EarlyExit(dry_run, 1, "read_error")
        ELSE IF Len(new_repos_df) = 0 THEN EarlyExit(dry_run, 0, "empty")
        ELSE IF ~HasCredentials(e)
        THEN EarlyExit(dry_run, 1, "no_credentials")
        ELSE IF dry_run
        THEN [ran |-> TRUE, dry_run |-> dry_run, exit |-> 0,
              outcome |-> "dry_run", login_calls |-> 0,
              authenticated |-> FALSE, created |-> <<>>,
              printed |-> [i \in 1..Len(new_repos_df) |->
                              create_repo_post(RowDict(new_repos_df[i]),
                                               DeepL(e, net.deepl[i])).text],
              success_count |-> 0, results |-> <<>>]
        ELSE IF ~client.ok
        THEN [ran |-> TRUE, dry_run |-> dry_run, exit |-> 1,
              outcome |-> "no_authentication", login_calls |-> 1,
              authenticated |-> FALSE, created |-> <<>>, printed |-> <<>>,
              success_count |-> 0, results |-> <<>>]
        ELSE [ran |-> TRUE, dry_run |-> dry_run,
              exit |-> IF SuccessCount(new_repos_df, client, net)
                            = Len(new_repos_df)
                       THEN 0 ELSE 1,
              outcome |-> "posted", login_calls |-> 1,
              authenticated |-> TRUE,
              created |-> Created(new_repos_df, client, e, net),
              printed |-> <<>>,
              success_count |-> SuccessCount(new_repos_df, client, net),
              results |-> PostResults(new_repos_df, client, net)]

(***************************************************************************)
(* The pipeline: the three commands run one at a time, in any order        *)
(***************************************************************************)

MaxRepos == 2

\* The Github column of the reference list: "g/A", "g/a ", "g/b", "g/b/"
UrlUpperA == <<103, 47, 65>>
UrlLowerA == <<103, 47, 97, 32>>
UrlB == <<103, 47, 98>>
UrlTrailingSlash == <<103, 47, 98, 47>>
Fetches ==
    {[ok |-> FALSE, github |-> <<>>],
     [ok |-> TRUE, github |-> <<UrlUpperA, UrlLowerA>>],
     [ok |-> TRUE, github |-> <<UrlTrailingSlash>>]}

Handles == {HandleOf(UrlUpperA), HandleOf(UrlB)}

\* The i-th repository of a handle, as the hosting API gives it: "x", "y", ...
\* with no description (odd i) or one with a multi-byte character (even i)
ApiRepo(h, i) ==
    [name |-> <<119 + i>>, full_name |-> h \o Slash \o <<119 + i>>,
     description |-> IF i % 2 = 1 THEN None ELSE StrVal(<<100, 8364>>)]

\* The repositories of a handle at some time: the first k, newest first, or
\* the newest alone
ApiRepoLists(h) ==
    {[i \in 1..k |-> ApiRepo(h, k + 1 - i)] : k \in 0..MaxRepos}
    \cup {<<ApiRepo(h, MaxRepos)>>}

ApiResponses(h) ==
    {[kind |-> "error", repos |-> <<>>], [kind |-> "none", repos |-> <<>>]}
    \cup {[kind |-> "org", repos |-> l] : l \in ApiRepoLists(h)}
    \cup {[kind |-> "user", repos |-> <<ApiRepo(h, 1)>>]}

\* The handles a fetched reference list names
FetchedHandles(fetch) ==
    {HandleOf(fetch.github[i]) : i \in 1..Len(fetch.github)} \cap Handles

\* What the hosting API answers for each handle of hs during one run
Apis(hs) ==
    {a \in [hs -> UNION {ApiResponses(h) : h \in Handles}] :
        \A h \in hs : a[h] \in ApiResponses(h)}

\* A snapshot an earlier Collector run left
EarlierSnapshot ==
    to_csv(<<RepoDict(HandleOf(UrlUpperA), ApiRepo(HandleOf(UrlUpperA), 1))>>)
InitSnapshots == {MissingFile, BadFile, EarlierSnapshot}

LoginOutcomes ==
    {[raises |-> TRUE, has_did |-> FALSE, resolve |-> "raises"],
     [raises |-> FALSE, has_did |-> TRUE, resolve |-> "did"]}
    \cup {[raises |-> FALSE, has_did |-> FALSE, resolve |-> r] :
            r \in {"did", "no_did", "raises"}}
PostResponses == {"uri", "no_uri", "raises"}
\* A translation call: it fails, or gives "ny"
PipeDeepLs ==
    {[ok |-> FALSE, text |-> <<>>], [ok |-> TRUE, text |-> <<110, 121>>]}
Envs == [username : BOOLEAN, password : BOOLEAN, deepl_key : BOOLEAN]

NRows(f) == Len(f[NewReposFile].rows)
Nets(n) ==
    [login : LoginOutcomes, post : [1..n -> PostResponses],
     deepl : [1..n -> PipeDeepLs]]

PipeInit ==
    /\ fs \in {f \in [FileNames -> InitSnapshots] :
                    f[NewReposFile] = MissingFile}
    /\ cache = [h \in Handles |-> MissingFile]
    /\ env \in Envs
    /\ lastCmd = "none"
    /\ coll = NoCall
    /\ differ = NoDifferRun
    /\ pub = NoPublisherRun
    /\ repoIn = <<>>
    /\ deeplIn = <<>>
    /\ record = NoRecord
    /\ postPc = "idle"

\* One call of get_repo_list
GetRepoList ==
    \E org \in Handles, force \in BOOLEAN :
      \E api \in ApiResponses(org) :
        LET res == get_repo_list(cache, org, force, api)
        IN  /\ cache' = res.cache
            /\ coll' = CallRecord(cache, org, force, res)
            /\ lastCmd' = "get_repo_list"
            /\ UNCHANGED <<fs, env, differ, pub>>
            /\ UNCHANGED postVars

\* One run of the Collector
Collector ==
    \E force \in BOOLEAN, fetch \in Fetches :
      \E api \in Apis(FetchedHandles(fetch)) :
        LET res == collector_cli(fs, cache, force, fetch, api)
        IN  /\ fs' = res.fs
            /\ cache' = res.cache
            /\ lastCmd' = "collector"
            /\ UNCHANGED <<env, coll, differ, pub>>
            /\ UNCHANGED postVars

\* The external rotation of "current" into "previous" between runs
Rotate ==
    /\ fs[CurrentFile].st = "ok"
    /\ fs[PreviousFile] # fs[CurrentFile]
    /\ fs' = [fs EXCEPT ![PreviousFile] = fs[CurrentFile]]
    /\ lastCmd' = "rotate"
    /\ UNCHANGED <<cache, env, coll, differ, pub>>
    /\ UNCHANGED postVars

\* One run of the Differ
Differ ==
    LET res == differ_cli(fs)
    IN  /\ fs' = res.fs
        /\ differ' = [ran |-> TRUE, consecutive |-> lastCmd = "differ",
                      exit |-> res.exit,
                      outcome |-> res.outcome, new_repos |-> res.new_repos,
                      wrote |-> res.wrote]
        /\ lastCmd' = "differ"
        /\ UNCHANGED <<cache, env, coll, pub>>
        /\ UNCHANGED postVars

\* One run of the Publisher
Publisher ==
    \E dry_run \in BOOLEAN, net \in Nets(NRows(fs)) :
        /\ pub' = publisher_cli(fs, dry_run, env, net)
        /\ lastCmd' = "publisher"
        /\ UNCHANGED <<fs, cache, env, coll, differ>>
        /\ UNCHANGED postVars

Next == Collector \/ Rotate \/ Differ \/ Publisher

Spec == PipeInit /\ [][Next]_vars

\* The Collector's get_repo_list, called on its own
CollectorNext == GetRepoList

SpecCollector == PipeInit /\ [][CollectorNext]_vars

\* The Differ between Collector runs and rotations
DifferNext == Collector \/ Rotate \/ Differ

SpecDiffer == PipeInit /\ [][DifferNext]_vars

\* The rows at the indexes S of a table, in the table's order
Pick(df, S) ==
    LET F[n \in 0..Len(df)] ==
            IF n = 0 THEN <<>>
            ELSE IF n \in S THEN Append(F[n - 1], df[n]) ELSE F[n - 1]
    IN  F[Len(df)]

\* The new-repos files a Publisher run may find: none, an unreadable one, one
\* with no rows, and what the Differ writes from a Collector's table
SortedRows(h) ==
    sort_values([i \in 1..MaxRepos |-> RepoDict(h, ApiRepo(h, i))])
PublisherInputs ==
    {MissingFile, BadFile, to_csv(<<>>)}
    \cup {to_csv(Pick(SortedRows(HandleOf(UrlUpperA)), S)) :
            S \in (SUBSET (1..MaxRepos)) \ {{}}}

PublisherInit ==
    /\ fs \in {f \in [FileNames -> PublisherInputs \cup {MissingFile}] :
                    /\ f[PreviousFile] = MissingFile
                    /\ f[CurrentFile] = MissingFile
                    /\ f[NewReposFile] \in PublisherInputs}
    /\ cache = [h \in Handles |-> MissingFile]
    /\ env \in Envs
    /\ lastCmd = "none"
    /\ coll = NoCall
    /\ differ = NoDifferRun
    /\ pub = NoPublisherRun
    /\ repoIn = <<>>
    /\ deeplIn = <<>>
    /\ record = NoRecord
    /\ postPc = "idle"

PublisherNext == Publisher

SpecPublisher == PublisherInit /\ [][PublisherNext]_vars

(***************************************************************************)
(* C1                                                                      *)
(***************************************************************************)

Rows(f, name) == read_csv(f[name])
Occurs(r, df) == \E j \in 1..Len(df) : df[j] = r
KeyAbsent(key, df) == \A k \in 1..Len(df) : df[k].full_name # key

\* C1: when both snapshots load, a Differ run's result holds a row of the
\* current table exactly if the row's full_name is in no row of the previous
\* table, and holds nothing else.
C1_SetDifference ==
    [][(lastCmd' = "differ" /\ fs[PreviousFile].st = "ok"
            /\ fs[CurrentFile].st = "ok")
        => LET cur == Rows(fs, CurrentFile)
               prev == Rows(fs, PreviousFile)
               new == differ'.new_repos
           IN  /\ \A i \in 1..Len(cur) :
                     Occurs(cur[i], new) <=> KeyAbsent(cur[i].full_name, prev)
               /\ \A j \in 1..Len(new) : Occurs(new[j], cur)]_vars

\* A run that found some rows of the current table new and others not
C1_Witness ==
    /\ lastCmd = "differ"
    /\ differ.outcome = "found"
    /\ fs[PreviousFile].st = "ok"
    /\ Len(differ.new_repos) >= 1
    /\ Len(differ.new_repos) < Len(Rows(fs, CurrentFile))

(***************************************************************************)
(* C2                                                                      *)
(***************************************************************************)

\* C2: two Differ runs, one after the other, that end in different outcomes
\* among "new repositories found", "no new repositories" and "error reading a
\* snapshot" end with different exit codes.
C2_DistinctExitCodes ==
    [][(lastCmd' = "differ" /\ differ.ran
            /\ differ.outcome \in {"found", "none", "read_error"}
            /\ differ'.outcome \in {"found", "none", "read_error"}
            /\ differ'.outcome # differ.outcome)
        => differ'.exit # differ.exit]_vars

(***************************************************************************)
(* C3                                                                      *)
(***************************************************************************)

\* C3 as stated: two Differ runs in a row, nothing run between them, both
\* give an empty new-repos result.
C3_EmptyBothTimes ==
    [][(lastCmd = "differ" /\ lastCmd' = "differ")
        => differ.new_repos = <<>> /\ differ'.new_repos = <<>>]_vars

\* C3 amended: two Differ runs in a row, nothing run between them, give the
\* same new-repos result, outcome and exit code, and the second leaves every
\* file as the first left it.
C3_SameBothTimes ==
    [][(lastCmd = "differ" /\ lastCmd' = "differ")
        => /\ differ'.new_repos = differ.new_repos
           /\ differ'.outcome = differ.outcome
           /\ differ'.exit = differ.exit
           /\ fs' = fs]_vars

\* A second run in a row that found new repositories
C3_Witness ==
    /\ lastCmd = "differ"
    /\ differ.consecutive
    /\ differ.outcome = "found"
    /\ differ.new_repos # <<>>

(***************************************************************************)
(* C8                                                                      *)
(***************************************************************************)

\* C8: a Differ run that finds no previous-snapshot file exits 0 and writes
\* no file, whatever the current snapshot is.
C8_FirstRun ==
    [][(lastCmd' = "differ" /\ fs[PreviousFile].st = "missing")
        => /\ differ'.exit = 0
           /\ ~differ'.wrote
           /\ fs' = fs]_vars

\* A first run with a current snapshot that holds rows
C8_Witness ==
    /\ lastCmd = "differ"
    /\ differ.outcome = "first_run"
    /\ fs[PreviousFile].st = "missing"
    /\ fs[CurrentFile].st = "ok"
    /\ Len(fs[CurrentFile].rows) >= 1

(***************************************************************************)
(* C9                                                                      *)
(***************************************************************************)

\* C9: a get_repo_list call for a handle whose cache file exists, with force
\* false, calls no API, does not sleep, leaves the cache file as it is and
\* returns the list the file stores; with force true the API is called.
C9_CacheHit ==
    coll.called =>
        /\ (coll.before.st # "missing" /\ ~coll.force)
              => /\ coll.api_calls = 0
                 /\ coll.sleeps = 0
                 /\ ~coll.wrote
                 /\ ~coll.raised
                 /\ coll.after = coll.before
                 /\ json_dump(coll.returned) = coll.before
        /\ (coll.before.st # "missing" /\ coll.force) => coll.api_calls >= 1

\* A call answered from a cache file that holds repositories
C9_Witness ==
    /\ coll.called
    /\ coll.before.st = "ok"
    /\ ~coll.force
    /\ Len(coll.returned) >= 2

(***************************************************************************)
(* C6                                                                      *)
(***************************************************************************)

NewReposRows == read_csv(fs[NewReposFile])

C7_DryRun ==
    (lastCmd = "publisher" /\ pub.dry_run /\ fs[NewReposFile].st = "ok"
        /\ Len(NewReposRows) >= 1)
    => /\ pub.exit = 0
       /\ Len(pub.printed) = Len(NewReposRows)
       /\ pub.login_calls = 0
       /\ pub.created = <<>>

(***************************************************************************)
(* C10                                                                     *)
(***************************************************************************)

\* C10: a Publisher run submits posts only for repositories the most recent
\* Differ run reported new; so after a Differ run that ended "no new
\* repositories" or "first run", whose result is empty, it submits nothing.
C10_HandOff ==
    (lastCmd = "publisher" /\ differ.ran)
    => \A i \in 1..Len(pub.created) :
          \E j \in 1..Len(differ.new_repos) :
             pub.created[i].record.uri
                = GithubUrl \o differ.new_repos[j].full_name

(***************************************************************************)
(* C4                                                                      *)
(***************************************************************************)

TranslatedDesc == Description(repoIn, deeplIn)

\* The text is the prefix alone, the prefix and the whole description, or the
\* prefix, a leading part of the description and "..."
OnlyDescriptionShortened ==
    \/ record.text = FixedPrefix(repoIn)
    \/ record.text = FixedPrefix(repoIn) \o BlankLine \o TranslatedDesc.s
    \/ \E k \in 1..Len(TranslatedDesc.s) :
          record.text = FixedPrefix(repoIn) \o BlankLine
                            \o SubSeq(TranslatedDesc.s, 1, k) \o Ellipsis

\* C4 as stated: every record's text has at most 300 characters and holds the
\* fixed prefix whole, only the description being shortened.
C4_LengthAlways ==
    postPc = "done" =>
        /\ Len(record.text) <= PostLimit
        /\ IsPrefixOf(FixedPrefix(repoIn), record.text)
        /\ OnlyDescriptionShortened

\* C4 amended: the text holds the fixed prefix whole and only the description
\* is shortened; it has at most 300 characters whenever the fixed prefix
\* itself has at most 300 characters.
C4_LengthWhenPrefixFits ==
    postPc = "done" =>
        /\ IsPrefixOf(FixedPrefix(repoIn), record.text)
        /\ OnlyDescriptionShortened
        /\ (Len(FixedPrefix(repoIn)) <= PostLimit
                => Len(record.text) <= PostLimit)

\* A description was cut to make the text fit exactly
C4_Witness ==
    /\ postPc = "done"
    /\ Len(FixedPrefix(repoIn)) <= PostLimit
    /\ Len(record.text) = PostLimit
    /\ \E k \in 1..Len(TranslatedDesc.s) :
          /\ k < Len(TranslatedDesc.s)
          /\ record.text = FixedPrefix(repoIn) \o BlankLine
                            \o SubSeq(TranslatedDesc.s, 1, k) \o Ellipsis

(***************************************************************************)
(* C5                                                                      *)
(***************************************************************************)

\* C5: the facet's byte range lies inside the UTF-8 encoding of the text and
\* the bytes in it are the UTF-8 encoding of https://github.com/<full_name>.
C5_FacetSlicesUrl ==
    postPc = "done" =>
        LET text_bytes == Utf8Encode(record.text)
        IN  /\ 0 <= record.byteStart
            /\ record.byteStart < record.byteEnd
            /\ record.byteEnd <= Len(text_bytes)
            /\ SubSeq(text_bytes, record.byteStart + 1, record.byteEnd)
                 = Utf8Encode(GithubUrl \o repoIn.full_name)

\* A record whose text has multi-byte characters before the URL and in the
\* description after it
C5_Witness ==
    /\ postPc = "done"
    /\ record.byteStart > Find(record.text, GithubUrl \o repoIn.full_name)
    /\ Len(Utf8Encode(record.text)) > Len(record.text) + 1
    /\ record.byteEnd < Len(Utf8Encode(record.text))

====
